---- MODULE Spec2Model ----
(***************************************************************************)
(* Procedural forest terrain (src/main.py): the chunk store and its        *)
(* reconcile (update_chunks), chunk creation, the coordinate transforms,   *)
(* the chunk seed, the two terrain generators and the window's handlers.   *)
(*                                                                         *)
(* Numbers.  Python floats are modelled in fixed point: angles and         *)
(* sin/cos values in units of 1/SCALE, measured probabilities in units of  *)
(* 1/(2*SCALE), hitbox coordinates in 1/1000 pixel.  Screen and camera     *)
(* coordinates are whole pixels.  All arithmetic stays below 2^31.         *)
(***************************************************************************)
EXTENDS Integers, Sequences, FiniteSets, Bags, TLC

(***************************************************************************)
(* Module constants of main.py (lines 7-28).                               *)
(***************************************************************************)
SCREEN_WIDTH == 1280
SCREEN_HEIGHT == 720
TILE_WIDTH == 128
TILE_HEIGHT == 64
MASTER_SEED == 12345

\* main.py sets CHUNK_SIZE = 16 and RENDER_DISTANCE = 4.  The model keeps
\* the names and explores the same code with a smaller chunk and window.
CHUNK_SIZE == 2
RENDER_DISTANCE == 1

(***************************************************************************)
(* Bounds of the exploration.                                              *)
(***************************************************************************)
\* the displacement, per axis, that one on_update can give the camera
MoveStep == 64
\* the number of frames in which on_update moves the camera
MaxFrames == 2
\* the pure functions are probed on arguments in -MaxProbe..MaxProbe
MaxProbe == 4

(***************************************************************************)
(* State of the window (ProceduralForestTerrain.__init__, lines 174-205).  *)
(***************************************************************************)
VARIABLES
    pc,                 \* "constructed" until main() has called setup()
    camera,             \* self.camera.position, in pixels
    scene,              \* self.scene: the Ground, Objects and Walls layers
    textures,           \* the keys of self.textures
    chunks,             \* self.chunks: chunk position -> chunk_sprites
    turn_direction,     \* self.turn_direction
    terrain_mode,       \* self.terrain_mode
    game_over,          \* self.game_over
    distance_traveled,  \* self.distance_traveled, in pixels
    \* history, not read by the program
    frames,             \* the number of frames that moved the camera
    viewpoint_before,   \* the camera position before the last update_chunks
    made,               \* for each resident chunk, the mode it was created in
    history,            \* <<position, mode>> -> its first creation, and how often (1, 2)
    \* probes of the pure functions
    probe,              \* the arguments
    result              \* the values returned so far

vars == << pc, camera, scene, textures, chunks, turn_direction, terrain_mode,
           game_over, distance_traveled, frames, viewpoint_before, made,
           history, probe, result >>

(***************************************************************************)
(* Fixed-point arithmetic.                                                 *)
(***************************************************************************)
SCALE == 10000
TWO_PI == 62832
PI == 31416
HALF_PI == 15708
QUARTER_PI == 7854

Abs(v) == IF v < 0 THEN -v ELSE v

\* Python's int(): truncation toward zero of the quotient a / b, b > 0
TruncDiv(a, b) == IF a >= 0 THEN a \div b ELSE -((-a) \div b)

\* sin on [0, pi/2], Taylor series to x^9 in Horner form
SinQ(x) ==
    LET x2 == (x * x) \div SCALE
        t4 == SCALE - x2 \div 72
        t3 == SCALE - ((x2 * t4) \div SCALE) \div 42
        t2 == SCALE - ((x2 * t3) \div SCALE) \div 20
        t1 == SCALE - ((x2 * t2) \div SCALE) \div 6
    IN  (x * t1) \div SCALE

\* math.sin of an angle given in 1/SCALE rad, result in 1/SCALE
Sin(a) ==
    LET r == a % TWO_PI
    IN  IF r <= HALF_PI THEN SinQ(r)
        ELSE IF r <= PI THEN SinQ(PI - r)
        ELSE IF r <= PI + HALF_PI THEN -SinQ(r - PI)
        ELSE -SinQ(TWO_PI - r)

Cos(a) == Sin(a + HALF_PI)

(***************************************************************************)
(* QuantumState (lines 37-53): the state is the phase.                     *)
(***************************************************************************)
QuantumState(x, y) ==
    (x * 1234 + y * 4321 + (Sin(x * 1000) * Cos(y * 1000)) \div SCALE) % TWO_PI

hadamard(phase) == (phase + QUARTER_PI) % TWO_PI

rotate(phase, angle) == (phase + angle) % TWO_PI

\* (cos(phase) + 1) / 2, in units of 1/(2*SCALE)
measure(phase) == Cos(phase) + SCALE

(***************************************************************************)
(* quantum_terrain (lines 56-86).  "None" stands for Python's None.        *)
(***************************************************************************)
\* lines 58-71: combined = (density + variation * 0.5) / 1.5, in 1/(2*SCALE)
quantum_combined(tile_x, tile_y) ==
    LET q0 == hadamard(QuantumState(tile_x, tile_y))
        angle == (tile_x * 3140 + tile_y * 2710
                    + (Sin(tile_x * 500) * 314) \div 100) % TWO_PI
        q1 == hadamard(rotate(q0, angle))
        q == rotate(q1, (tile_x * tile_y * 10) % TWO_PI)
        density == measure(q)
        q2 == rotate(hadamard(QuantumState(tile_y, tile_x)), tile_x * 1000)
        variation == measure(q2)
    IN  (2 * density + variation) \div 3

\* a mutated band table: the first bound is inclusive
quantum_band_inclusive(combined, tile_x, tile_y) ==
    IF combined <= 13000 THEN "None"
    ELSE IF combined < 13600 THEN "tree_thin_fall"
    ELSE IF combined < 14000 THEN "tree_default_fall"
    ELSE IF combined < 14400 THEN "tree_oak_fall"
    ELSE IF combined < 15000 THEN "stone_large"
    ELSE IF combined < 15400 THEN "log"
    ELSE IF (tile_x + tile_y) % 3 = 0 THEN "stone_tall" ELSE "bush_small"

\* lines 73-86: the band of a combined value (0.65 is 13000/20000, ...)
quantum_band(combined, tile_x, tile_y) ==
    IF combined < 13000 THEN "None"
    ELSE IF combined < 13600 THEN "tree_thin_fall"
    ELSE IF combined < 14000 THEN "tree_default_fall"
    ELSE IF combined < 14400 THEN "tree_oak_fall"
    ELSE IF combined < 15000 THEN "stone_large"
    ELSE IF combined < 15400 THEN "log"
    ELSE IF (tile_x + tile_y) % 3 = 0 THEN "stone_tall" ELSE "bush_small"

\* a mutated field: it drifts with every frame the game has played
quantum_terrain_drifting(tile_x, tile_y) ==
    quantum_band(quantum_combined(tile_x + frames, tile_y), tile_x, tile_y)

quantum_terrain(tile_x, tile_y) ==
    quantum_band(quantum_combined(tile_x, tile_y), tile_x, tile_y)

(***************************************************************************)
(* random.Random (line 387): a stream that is a function of its seed.      *)
(* The generator of the library is replaced by a small linear congruential *)
(* one; a draw is reported in thousandths.                                 *)
(***************************************************************************)
RNG_MODULUS == 65537

Random(seed) == seed % RNG_MODULUS

\* rng.random(): the stream after the draw, and the value drawn (0..999)
rng_next(rng) == (75 * rng + 74) % RNG_MODULUS

rng_value(rng) == (rng_next(rng) * 1000) \div RNG_MODULUS

(***************************************************************************)
(* Coordinate transforms (lines 271-282).                                  *)
(***************************************************************************)
iso_to_screen(iso_x, iso_y) ==
    << (iso_x - iso_y) * (TILE_WIDTH \div 2),
       (iso_x + iso_y) * (TILE_HEIGHT \div 2) >>

\* a mutated bucketing: floor instead of int()
screen_to_chunk_floor(screen_x, screen_y) ==
    << screen_x \div ((TILE_WIDTH * CHUNK_SIZE) \div 2),
       screen_y \div ((TILE_HEIGHT * CHUNK_SIZE) \div 2) >>

screen_to_chunk(screen_x, screen_y) ==
    LET tiles_per_chunk == CHUNK_SIZE
    IN  << TruncDiv(screen_x, (TILE_WIDTH * tiles_per_chunk) \div 2),
           TruncDiv(screen_y, (TILE_HEIGHT * tiles_per_chunk) \div 2) >>

(***************************************************************************)
(* get_chunk_seed (lines 284-293).  Python integers are unbounded: the     *)
(* products with the two hash primes and their XOR are kept as a pair      *)
(* <<high, low>> standing for high * 65536 + low with 0 <= low < 65536,    *)
(* and the final remainder is computed in modular arithmetic.              *)
(***************************************************************************)
SEED_MODULUS == 2147483647
LIMB == 65536

\* bit i of a hexadecimal digit
Bit(d, i) == (d \div (2 ^ i)) % 2

\* the XOR of two hexadecimal digits
XorDigit(c, d) ==
    ((Bit(c, 0) + Bit(d, 0)) % 2) + 2 * ((Bit(c, 1) + Bit(d, 1)) % 2)
        + 4 * ((Bit(c, 2) + Bit(d, 2)) % 2) + 8 * ((Bit(c, 3) + Bit(d, 3)) % 2)

\* the bitwise XOR of two Python integers (two's complement, any sign),
\* a hexadecimal digit at a time
RECURSIVE XorInt(_, _)
XorInt(a, b) ==
    IF a = 0 THEN b
    ELSE IF b = 0 THEN a
    ELSE IF a = -1 THEN -b - 1
    ELSE IF b = -1 THEN -a - 1
    ELSE 16 * XorInt(a \div 16, b \div 16) + XorDigit(a % 16, b % 16)

\* (a + b) % SEED_MODULUS for a, b in 0 .. SEED_MODULUS - 1
AddMod(a, b) ==
    IF a >= SEED_MODULUS - b THEN a - (SEED_MODULUS - b) ELSE a + b

\* (z * LIMB) % SEED_MODULUS for z in 0 .. SEED_MODULUS - 1: SEED_MODULUS is
\* 2^31 - 1, so 2^31 is 1 modulo it and z = u * 2^15 + w gives u + w * 2^16
TimesLimbMod(z) == AddMod(z \div 32768, (z % 32768) * LIMB)

\* (1000 * z) % SEED_MODULUS for z in 0 .. SEED_MODULUS - 1, the same way:
\* z = q * 2^21 + r, and 1000 * q = u * 2^10 + w
Times1000Mod(z) ==
    AddMod(AddMod((1000 * (z % 2097152)) % SEED_MODULUS,
                  (1000 * (z \div 2097152)) \div 1024),
           ((1000 * (z \div 2097152)) % 1024) * 2097152)

\* v * (hi * LIMB + lo) as <<high, low>>
BigProduct(v, hi, lo) ==
    LET p == v * lo IN << v * hi + p \div LIMB, p % LIMB >>

\* int(abs(t + 1000 * (high * LIMB + low)) % (2 ** 31 - 1))
AbsMod(t, high, low) ==
    IF high \in {-1, 0}
    THEN Abs(t + 1000 * (high * LIMB + low)) % SEED_MODULUS
    ELSE IF high > 0
    THEN AddMod(Times1000Mod(AddMod(TimesLimbMod(high % SEED_MODULUS), low)),
                t % SEED_MODULUS)
    ELSE AddMod(Times1000Mod(AddMod(TimesLimbMod((-high) % SEED_MODULUS),
                                    (-low) % SEED_MODULUS)),
                (-t) % SEED_MODULUS)

\* lines 289-292
activated_seed(center_x, center_y) ==
    LET \* MASTER_SEED * sin(center_x * 0.1) * cos(center_y * 0.1) * 1000
        trig == (MASTER_SEED
                   * ((Sin(center_x * 1000) * Cos(center_y * 1000)) \div SCALE))
                \div 10
        \* 73856093 = 1126 * LIMB + 62557, 19349663 = 295 * LIMB + 16543
        px == BigProduct(center_x, 1126, 62557)
        py == BigProduct(center_y, 295, 16543)
    IN  AbsMod(trig, XorInt(px[1], py[1]), XorInt(px[2], py[2]))

\* a mutated seed: the generation mode is mixed into it
get_chunk_seed_of_mode(chunk_x, chunk_y) ==
    activated_seed(chunk_x * CHUNK_SIZE + CHUNK_SIZE \div 2
                     + (IF terrain_mode = "random" THEN 1 ELSE 0),
                   chunk_y * CHUNK_SIZE + CHUNK_SIZE \div 2)

get_chunk_seed(chunk_x, chunk_y) ==
    LET center_x == chunk_x * CHUNK_SIZE + CHUNK_SIZE \div 2
        center_y == chunk_y * CHUNK_SIZE + CHUNK_SIZE \div 2
    IN  activated_seed(center_x, center_y)

(***************************************************************************)
(* get_hitbox_for_element, has_collision (lines 295-352).  A hitbox is the *)
(* list of its four points, in 1/1000 pixel.                               *)
(***************************************************************************)
\* a mutated test: equality where the code tests for a substring
ContainsTree_exact(element) == element = "tree"

\* 'tree' in element
ContainsTree(element) ==
    element \in {"tree_blocks_fall", "tree_fat_fall", "tree_thin_fall",
                 "tree_tall_fall", "tree_default_fall", "tree_oak_fall"}

\* the rectangle [-w, w] x [-below, above], listed as the code lists it
Rect(w, below, above) ==
    << <<-w, -below>>, <<w, -below>>, <<w, above>>, <<-w, above>> >>

get_hitbox_for_element(element) ==
    LET hitbox_width == TILE_WIDTH * 300
        hitbox_height == TILE_HEIGHT * 300
    IN  IF ContainsTree(element)
        THEN Rect((hitbox_width * 45) \div 100, (hitbox_height * 30) \div 10,
                  (hitbox_height * 8) \div 10)
        ELSE IF element = "stone_large"
        THEN Rect((hitbox_width * 8) \div 10, (hitbox_height * 12) \div 10,
                  (hitbox_height * 6) \div 10)
        ELSE IF element \in {"log", "log_large"}
        THEN Rect((hitbox_width * 9) \div 10, (hitbox_height * 10) \div 10,
                  (hitbox_height * 5) \div 10)
        ELSE IF element = "stone_tall"
        THEN Rect((hitbox_width * 6) \div 10, (hitbox_height * 8) \div 10,
                  (hitbox_height * 4) \div 10)
        ELSE Rect(hitbox_width \div 2, hitbox_height \div 2, hitbox_height \div 2)

\* a mutated classification: logs are left out
has_collision_no_logs(element_type) ==
    element_type \in {"tree_blocks_fall", "tree_fat_fall", "tree_thin_fall",
                      "tree_tall_fall", "tree_default_fall", "tree_oak_fall",
                      "stone_tall", "stone_large"}

has_collision(element_type) ==
    element_type \in {"tree_blocks_fall", "tree_fat_fall", "tree_thin_fall",
                      "tree_tall_fall", "tree_default_fall", "tree_oak_fall",
                      "stone_tall", "stone_large", "log", "log_large"}

(***************************************************************************)
(* generate_terrain_element (lines 354-382).  mode is self.terrain_mode;   *)
(* the result is the element and the stream after the                      *)
(* draws the call consumed.                                                *)
(***************************************************************************)
\* a mutated generator: it never looks at the mode
generate_terrain_element_quantum_only(mode, tile_x, tile_y, rng) ==
    [element |-> quantum_terrain(tile_x, tile_y), rng |-> rng]

\* lines 361-382 on their own: the element drawn and the stream left
random_draws(rng) ==
    LET noise == rng_value(rng)
        rng1 == rng_next(rng)
        second == rng_value(rng1)
        rng2 == rng_next(rng1)
    IN  IF noise < 350
        THEN [element |->
                 IF second < 300 THEN "tree_blocks_fall"
                 ELSE IF second < 500 THEN "tree_oak_fall"
                 ELSE IF second < 700 THEN "tree_default_fall"
                 ELSE IF second < 850 THEN "tree_fat_fall"
                 ELSE "tree_thin_fall",
              rng |-> rng2]
        ELSE IF noise < 400
        THEN [element |-> IF second < 700 THEN "stone_tall" ELSE "stone_large",
              rng |-> rng2]
        ELSE IF noise < 430
        THEN [element |-> IF second < 600 THEN "log" ELSE "log_large",
              rng |-> rng2]
        ELSE IF noise < 480
        THEN [element |-> "bush_small", rng |-> rng1]
        ELSE [element |-> "None", rng |-> rng1]

\* a mutated generator: random mode takes the second draw for every tile
generate_terrain_element_eager(mode, tile_x, tile_y, rng) ==
    IF mode = "quantum"
    THEN [element |-> quantum_terrain(tile_x, tile_y), rng |-> rng]
    ELSE [element |-> random_draws(rng).element,
          rng |-> rng_next(rng_next(rng))]

\* a mutated generator: quantum mode takes a draw from the stream
generate_terrain_element_drawing(mode, tile_x, tile_y, rng) ==
    IF mode = "quantum"
    THEN [element |-> quantum_terrain(tile_x, tile_y), rng |-> rng_next(rng)]
    ELSE random_draws(rng)

generate_terrain_element(mode, tile_x, tile_y, rng) ==
    IF mode = "quantum"
    THEN [element |-> quantum_terrain(tile_x, tile_y), rng |-> rng]
    ELSE LET noise == rng_value(rng)
             rng1 == rng_next(rng)
             second == rng_value(rng1)
             rng2 == rng_next(rng1)
         IN  IF noise < 350
             THEN [element |->
                      IF second < 300 THEN "tree_blocks_fall"
                      ELSE IF second < 500 THEN "tree_oak_fall"
                      ELSE IF second < 700 THEN "tree_default_fall"
                      ELSE IF second < 850 THEN "tree_fat_fall"
                      ELSE "tree_thin_fall",
                   rng |-> rng2]
             ELSE IF noise < 400
             THEN [element |-> IF second < 700 THEN "stone_tall"
                                               ELSE "stone_large",
                   rng |-> rng2]
             ELSE IF noise < 430
             THEN [element |-> IF second < 600 THEN "log" ELSE "log_large",
                   rng |-> rng2]
             ELSE IF noise < 480
             THEN [element |-> "bush_small", rng |-> rng1]
             ELSE [element |-> "None", rng |-> rng1]

(***************************************************************************)
(* create_chunk (lines 384-439).  A sprite is its texture, its centre, the *)
(* tile it stands on (iso_x, iso_y; a ground sprite has none) and its      *)
(* hitbox (<<>>: the default one of the texture).                          *)
(***************************************************************************)
Sprite(texture, screen, iso, hit_box) ==
    [texture |-> texture, center_x |-> screen[1], center_y |-> screen[2],
     iso |-> iso, hit_box |-> hit_box]

\* one pass of the loop body (lines 401-437): the stream and the
\* chunk_sprites after tile (tile_x, tile_y)
place_tile(mode, tex, tile_x, tile_y, loop) ==
    LET screen == iso_to_screen(tile_x, tile_y)
        grass_sprite == Sprite("grass", screen, <<>>, <<>>)
        gen == generate_terrain_element(mode, tile_x, tile_y, loop.rng)
        element == gen.element
        placed == element # "None" /\ element \in tex
        wall == placed /\ has_collision(element)
        detail_sprite ==
            Sprite(element, screen, <<tile_x, tile_y>>,
                   IF wall THEN get_hitbox_for_element(element) ELSE <<>>)
    IN  [rng |-> gen.rng,
         chunk_sprites |->
            [ground |-> Append(loop.chunk_sprites.ground, grass_sprite),
             objects |-> IF placed /\ ~wall
                         THEN Append(loop.chunk_sprites.objects, detail_sprite)
                         ELSE loop.chunk_sprites.objects,
             walls |-> IF wall
                       THEN Append(loop.chunk_sprites.walls, detail_sprite)
                       ELSE loop.chunk_sprites.walls]]

\* the loop of lines 399-437 from tile index i on; x is the outer loop.
\* loop is the stream and the chunk_sprites so far.  (The one-element set
\* makes each pass work on the values the pass before it left.)
RECURSIVE create_tiles(_, _, _, _, _, _)
create_tiles(mode, tex, start_tile_x, start_tile_y, i, loop) ==
    IF i >= CHUNK_SIZE * CHUNK_SIZE THEN loop.chunk_sprites
    ELSE CHOOSE chunk_sprites \in
           { create_tiles(mode, tex, start_tile_x, start_tile_y, i + 1, next) :
               next \in { place_tile(mode, tex,
                                     start_tile_x + (i \div CHUNK_SIZE),
                                     start_tile_y + (i % CHUNK_SIZE), loop) } }
           : TRUE

\* the chunk_sprites returned; the same sprites are added to the scene
create_chunk(mode, tex, chunk_x, chunk_y) ==
    CHOOSE chunk_sprites \in
      { create_tiles(mode, tex, chunk_x * CHUNK_SIZE, chunk_y * CHUNK_SIZE, 0,
                     [rng |-> rng, chunk_sprites |->
                         [ground |-> <<>>, objects |-> <<>>, walls |-> <<>>]]) :
          rng \in { Random(get_chunk_seed(chunk_x, chunk_y)) } } : TRUE

(***************************************************************************)
(* update_chunks (lines 441-465).                                          *)
(***************************************************************************)
\* lines 443-446
center_chunk(cam) ==
    screen_to_chunk(cam[1] + SCREEN_WIDTH \div 2, cam[2] + SCREEN_HEIGHT \div 2)

\* lines 448-451
chunks_needed(center) ==
    { <<center[1] + dx, center[2] + dy>> :
        dx \in -RENDER_DISTANCE .. RENDER_DISTANCE,
        dy \in -RENDER_DISTANCE .. RENDER_DISTANCE }

\* lines 448-451 for a RENDER_DISTANCE of any sign: range(-r, r + 1) is
\* empty when r is negative
chunks_needed_at(center, render_distance) ==
    { <<center[1] + dx, center[2] + dy>> :
        dx \in -render_distance .. render_distance,
        dy \in -render_distance .. render_distance }

\* a mutated eviction: nothing is removed
chunks_to_remove_none(chs, needed) == {}

\* a mutated eviction: the store is cleared
chunks_to_remove_all(chs, needed) == DOMAIN chs

\* lines 454-457
chunks_to_remove(chs, needed) ==
    { chunk_pos \in DOMAIN chs : chunk_pos \notin needed }

\* a mutated creation: every needed chunk is created again
chunks_to_create_all(chs, needed) == needed

\* lines 463-464: chs is the store after the removal
chunks_to_create(chs, needed) ==
    { chunk_pos \in needed : chunk_pos \notin DOMAIN chs }

\* the sprites that the chunks of `fresh` hold in a list, as a bag: the
\* sprites created by one update_chunks stand on different tiles
LayerBag(fresh, list) ==
    SetToBag(UNION { { fresh[chunk_pos][list][i] :
                         i \in 1 .. Len(fresh[chunk_pos][list]) } :
                     chunk_pos \in DOMAIN fresh })

\* lines 459-465: the store kept, the chunks created, and the scene with
\* the sprites create_chunk added to it
reconcile(sc, chs, removed, fresh) ==
    [chunks |-> [chunk_pos \in (DOMAIN chs \ removed) \cup DOMAIN fresh |->
                    IF chunk_pos \in DOMAIN fresh THEN fresh[chunk_pos]
                                                  ELSE chs[chunk_pos]],
     created |-> fresh,
     scene |-> [Ground |-> sc.Ground (+) LayerBag(fresh, "ground"),
                Objects |-> sc.Objects (+) LayerBag(fresh, "objects"),
                Walls |-> sc.Walls (+) LayerBag(fresh, "walls")]]

\* a mutated update_chunks: it runs before the camera position is written,
\* and takes the window around the position the camera still has
update_chunks_early(cam, sc, chs, mode, tex) ==
    LET needed == chunks_needed(center_chunk(camera))
        removed == chunks_to_remove(chs, needed)
        kept == [chunk_pos \in DOMAIN chs \ removed |-> chs[chunk_pos]]
        todo == chunks_to_create(kept, needed)
    IN  CHOOSE after \in
          { reconcile(sc, chs, removed, fresh) :
              fresh \in { [chunk_pos \in todo |->
                             create_chunk(mode, tex, chunk_pos[1], chunk_pos[2])] } }
          : TRUE

\* the store and the scene after update_chunks
update_chunks(cam, sc, chs, mode, tex) ==
    LET needed == chunks_needed(center_chunk(cam))
        removed == chunks_to_remove(chs, needed)
        kept == [chunk_pos \in DOMAIN chs \ removed |-> chs[chunk_pos]]
        todo == chunks_to_create(kept, needed)
    IN  CHOOSE after \in
          { reconcile(sc, chs, removed, fresh) :
              fresh \in { [chunk_pos \in todo |->
                             create_chunk(mode, tex, chunk_pos[1], chunk_pos[2])] } }
          : TRUE

(***************************************************************************)
(* The program: __init__, setup and the handlers.                          *)
(***************************************************************************)
\* the keys load_textures stores when every file loads (lines 211-229)
ALL_TEXTURES ==
    {"grass", "tree_blocks_fall", "tree_default_fall", "tree_fat_fall",
     "tree_thin_fall", "tree_oak_fall", "stone_tall", "stone_large",
     "bush_small", "log", "log_large"}

\* the keys in the order load_textures stores them (lines 211-229)
LOAD_ORDER ==
    << "grass", "tree_blocks_fall", "tree_default_fall", "tree_fat_fall",
       "tree_thin_fall", "tree_oak_fall", "stone_tall", "stone_large",
       "bush_small", "log", "log_large" >>

\* load_textures (lines 207-234) when the load numbered `failed` raises (0:
\* none does): the keys stored before it, and the fallback grass of the
\* except branch
load_textures(failed) ==
    IF failed = 0 THEN { LOAD_ORDER[i] : i \in 1 .. Len(LOAD_ORDER) }
    ELSE { LOAD_ORDER[i] : i \in 1 .. failed - 1 } \cup {"grass"}

\* arcade.Scene() with its empty sprite lists (lines 239-245)
NEW_SCENE == [Ground |-> EmptyBag, Objects |-> EmptyBag, Walls |-> EmptyBag]

\* arcade.camera.Camera2D() looks at the centre of the window
CAMERA_START == << SCREEN_WIDTH \div 2, SCREEN_HEIGHT \div 2 >>

KEYS == {"LEFT", "A", "RIGHT", "D", "Q", "R", "SPACE"}

MODES == {"quantum", "random"}

\* the history after an update_chunks that created the chunks `fresh`
Made(store, fresh, mode) ==
    [chunk_pos \in DOMAIN store |->
        IF chunk_pos \in DOMAIN fresh THEN mode ELSE made[chunk_pos]]

History(fresh, mode) ==
    LET new == { <<chunk_pos, mode>> : chunk_pos \in DOMAIN fresh }
    IN  [k \in DOMAIN history \cup new |->
            IF k \in DOMAIN history
            THEN IF k \in new
                 THEN [history[k] EXCEPT !.times = 2]
                 ELSE history[k]
            ELSE [first |-> fresh[k[1]], times |-> 1]]

Init ==
    /\ pc = "constructed"
    /\ camera = CAMERA_START
    /\ scene = NEW_SCENE
    /\ textures = ALL_TEXTURES
    /\ chunks = << >>
    /\ turn_direction = 0
    /\ terrain_mode = "quantum"
    /\ game_over = FALSE
    /\ distance_traveled = 0
    /\ frames = 0
    /\ viewpoint_before = CAMERA_START
    /\ made = << >>
    /\ history = << >>
    /\ probe = << >>
    /\ result = << >>

\* setup (lines 236-269): a new scene, update_chunks, the game state reset
setup ==
    \E after \in { update_chunks(camera, NEW_SCENE, chunks, terrain_mode,
                                 textures) } :
        /\ scene' = after.scene
        /\ chunks' = after.chunks
        /\ made' = Made(after.chunks, after.created, terrain_mode)
        /\ history' = History(after.created, terrain_mode)
        /\ viewpoint_before' = camera
        /\ game_over' = FALSE
        /\ distance_traveled' = 0
        /\ UNCHANGED << camera, textures, turn_direction, terrain_mode,
                        frames, probe, result >>

\* main (lines 608-611): window.setup(), then arcade.run()
Main ==
    /\ pc = "constructed"
    /\ pc' = "running"
    /\ setup

\* a mutated on_key_press: Q also empties the store, for the chunks to be
\* generated again in the new mode
on_key_press_regenerating(key) ==
    /\ pc = "running"
    /\ IF game_over
       THEN IF key = "R"
            THEN /\ setup
                 /\ UNCHANGED pc
            ELSE UNCHANGED vars
       ELSE /\ turn_direction' =
                  IF key \in {"LEFT", "A"} THEN -1
                  ELSE IF key \in {"RIGHT", "D"} THEN 1
                  ELSE turn_direction
            /\ terrain_mode' =
                  IF key # "Q" THEN terrain_mode
                  ELSE IF terrain_mode = "quantum" THEN "random" ELSE "quantum"
            /\ chunks' = IF key = "Q" THEN << >> ELSE chunks
            /\ made' = IF key = "Q" THEN << >> ELSE made
            /\ UNCHANGED << pc, camera, scene, textures, game_over,
                            distance_traveled, frames, viewpoint_before,
                            history, probe, result >>

\* a mutated on_key_press without the early return of lines 469-472: R still
\* restarts a finished game, every other key is handled as in a running one
on_key_press_unguarded(key) ==
    /\ pc = "running"
    /\ IF game_over /\ key = "R"
       THEN /\ setup
            /\ UNCHANGED pc
       ELSE /\ turn_direction' =
                  IF key \in {"LEFT", "A"} THEN -1
                  ELSE IF key \in {"RIGHT", "D"} THEN 1
                  ELSE turn_direction
            /\ terrain_mode' =
                  IF key # "Q" THEN terrain_mode
                  ELSE IF terrain_mode = "quantum" THEN "random" ELSE "quantum"
            /\ UNCHANGED << pc, camera, scene, textures, chunks, game_over,
                            distance_traveled, frames, viewpoint_before, made,
                            history, probe, result >>

\* on_key_press (lines 467-485)
on_key_press(key) ==
    /\ pc = "running"
    /\ IF game_over
       THEN IF key = "R"
            THEN /\ setup
                 /\ UNCHANGED pc
            ELSE UNCHANGED vars
       ELSE /\ turn_direction' =
                  IF key \in {"LEFT", "A"} THEN -1
                  ELSE IF key \in {"RIGHT", "D"} THEN 1
                  ELSE turn_direction
            /\ terrain_mode' =
                  IF key \in {"LEFT", "A", "RIGHT", "D"} \/ key # "Q"
                  THEN terrain_mode
                  ELSE IF terrain_mode = "quantum" THEN "random" ELSE "quantum"
            /\ UNCHANGED << pc, camera, scene, textures, chunks, game_over,
                            distance_traveled, frames, viewpoint_before, made,
                            history, probe, result >>

\* on_key_release (lines 487-494)
on_key_release(key) ==
    /\ pc = "running"
    /\ turn_direction' =
          IF key \in {"LEFT", "A"} /\ turn_direction = -1 THEN 0
          ELSE IF key \in {"RIGHT", "D"} /\ turn_direction = 1 THEN 0
          ELSE turn_direction
    /\ UNCHANGED << pc, camera, scene, textures, chunks, terrain_mode, game_over,
                    distance_traveled, frames, viewpoint_before, made, history,
                    probe, result >>

\* math.sqrt(n), to the pixel
Sqrt(n) == CHOOSE r \in 0 .. 2 * MoveStep : r * r <= n /\ n < (r + 1) * (r + 1)

\* on_update (lines 496-542) when the physics engine blocked the character:
\* the walls it was given are those of the scene
on_update_blocked ==
    /\ pc = "running"
    /\ ~game_over
    /\ scene.Walls # EmptyBag
    /\ game_over' = TRUE
    /\ UNCHANGED << pc, camera, scene, textures, chunks, turn_direction,
                    terrain_mode, distance_traveled, frames, viewpoint_before,
                    made, history, probe, result >>

\* on_update when the physics engine let the character move by its
\* (change_x, change_y) = (move_x, move_y): the test of lines 523-524 fails
\* and the camera follows.  The moves explored are the four diagonal ones.
on_update_moved(move_x, move_y) ==
    LET position == << camera[1] + move_x, camera[2] + move_y >>
    IN  /\ pc = "running"
        /\ ~game_over
        /\ frames < MaxFrames
        /\ frames' = frames + 1
        /\ \E after \in { update_chunks(position, scene, chunks, terrain_mode,
                                        textures) } :
              /\ scene' = after.scene
              /\ chunks' = after.chunks
              /\ made' = Made(after.chunks, after.created, terrain_mode)
              /\ history' = History(after.created, terrain_mode)
        /\ distance_traveled' =
              distance_traveled + Sqrt(move_x * move_x + move_y * move_y)
        /\ camera' = position
        /\ viewpoint_before' = camera
        /\ UNCHANGED << pc, textures, turn_direction, terrain_mode, game_over,
                        probe, result >>

\* on_update while the game is over (lines 498-499)
on_update_over ==
    /\ pc = "running"
    /\ game_over
    /\ UNCHANGED vars

\* on_draw (lines 544-605): the layers of the scene, the distance and
\* game_over are read and drawn; no attribute is written
on_draw ==
    /\ pc = "running"
    /\ UNCHANGED vars

MOVES == {-MoveStep, MoveStep}

Next ==
    \/ Main
    \/ \E key \in KEYS : on_key_press(key)
    \/ \E key \in KEYS : on_key_release(key)
    \/ on_update_blocked
    \/ \E move_x \in MOVES, move_y \in MOVES : on_update_moved(move_x, move_y)
    \/ on_update_over
    \/ on_draw

Spec == Init /\ [][Next]_vars

\* -------------------------------------------------------------------------
\* The pure functions on their own.  A probe is one input, drawn when the
\* behaviour starts; each action applies one function of Game to it and
\* appends what the function returned to result.  Between two calls the
\* generation mode may be toggled and the game started.
\* -------------------------------------------------------------------------

\* pixel coordinates on both sides of zero, a few of them chunk edges
PIXELS ==
    { v * w : v \in -MaxProbe .. MaxProbe,
              w \in {1, (TILE_HEIGHT * CHUNK_SIZE) \div 2,
                        (TILE_WIDTH * CHUNK_SIZE) \div 2} }

\* combined values (in 1/20000) around every band edge of quantum_terrain
COMBINED ==
    { edge + d : edge \in {13000, 13600, 14000, 14400, 15000, 15400},
                 d \in -1 .. 1 }
      \cup { 0, 2 * SCALE }

\* the elements the generators return (None apart), and the tree kind that
\* only has_collision names
ELEMENTS == (ALL_TEXTURES \ {"grass"}) \cup {"tree_tall_fall"}

\* states of the random stream
RNG_STATES == { (s * 997) % RNG_MODULUS : s \in 0 .. 64 * MaxProbe }

PROBES ==
    [kind : {"pixel"}, a : PIXELS, b : PIXELS]
      \cup [kind : {"centre", "seed"},
            a : -MaxProbe .. MaxProbe, b : -MaxProbe .. MaxProbe]
      \cup [kind : {"band"}, a : COMBINED, b : 0 .. 2]
      \cup [kind : {"create"},
            a : -MaxProbe .. MaxProbe, b : -MaxProbe .. MaxProbe]
      \cup [kind : {"generate"}, a : RNG_STATES, b : -MaxProbe .. MaxProbe]
      \cup [kind : {"hitbox"}, a : ELEMENTS, b : {0}]
      \cup [kind : {"config"}, a : -MaxProbe .. 1, b : {0}]

InitPure ==
    /\ probe \in PROBES
    /\ textures \in IF probe.kind = "create"
                    THEN { load_textures(failed) :
                             failed \in 0 .. Len(LOAD_ORDER) }
                    ELSE { ALL_TEXTURES }
    /\ pc = "constructed"
    /\ camera = CAMERA_START
    /\ scene = NEW_SCENE
    /\ chunks = << >>
    /\ turn_direction = 0
    /\ terrain_mode = "quantum"
    /\ game_over = FALSE
    /\ distance_traveled = 0
    /\ frames = 0
    /\ viewpoint_before = CAMERA_START
    /\ made = << >>
    /\ history = << >>
    /\ result = << >>

pure_vars ==
    << pc, camera, scene, textures, chunks, turn_direction, game_over,
       distance_traveled, frames, viewpoint_before, made, history, probe >>

\* screen_to_chunk applied to a pixel position
call_screen_to_chunk ==
    /\ probe.kind = "pixel"
    /\ result = << >>
    /\ result' = << screen_to_chunk(probe.a, probe.b) >>
    /\ UNCHANGED << pure_vars, terrain_mode >>

\* the centre tile of chunk (a, b) projected by iso_to_screen, the pixel
\* position handed to screen_to_chunk
call_round_trip ==
    /\ probe.kind = "centre"
    /\ result = << >>
    /\ result' =
          << screen_to_chunk(
                iso_to_screen(probe.a * CHUNK_SIZE + CHUNK_SIZE \div 2,
                              probe.b * CHUNK_SIZE + CHUNK_SIZE \div 2)[1],
                iso_to_screen(probe.a * CHUNK_SIZE + CHUNK_SIZE \div 2,
                              probe.b * CHUNK_SIZE + CHUNK_SIZE \div 2)[2]) >>
    /\ UNCHANGED << pure_vars, terrain_mode >>

\* get_chunk_seed, called up to twice for the same chunk
call_get_chunk_seed ==
    /\ probe.kind = "seed"
    /\ Len(result) < 2
    /\ result' = Append(result, get_chunk_seed(probe.a, probe.b))
    /\ UNCHANGED << pure_vars, terrain_mode >>

\* the Q key between two calls, or before a chunk is created (lines 478-484)
toggle_mode ==
    /\ \/ probe.kind = "seed" /\ Len(result) = 1
       \/ probe.kind \in {"create", "generate"} /\ result = << >>
    /\ terrain_mode = "quantum"
    /\ terrain_mode' = "random"
    /\ UNCHANGED << pure_vars, result >>

\* the game started between two calls: setup fills the chunk store
start_game ==
    /\ probe.kind = "seed"
    /\ Len(result) = 1
    /\ Main

\* the band of a combined value at tile (b, 0)
call_quantum_band ==
    /\ probe.kind = "band"
    /\ result = << >>
    /\ result' = << quantum_band(probe.a, probe.b, 0) >>
    /\ UNCHANGED << pure_vars, terrain_mode >>

\* create_chunk for chunk (a, b), with the textures that loaded
call_create_chunk ==
    /\ probe.kind = "create"
    /\ result = << >>
    /\ result' = << create_chunk(terrain_mode, textures, probe.a, probe.b) >>
    /\ UNCHANGED << pure_vars, terrain_mode >>

\* generate_terrain_element for tile (b, b), twice, as two passes of the
\* loop of create_chunk call it: the first with the stream in state a, the
\* second with the stream the first left
call_generate_terrain_element ==
    /\ probe.kind = "generate"
    /\ Len(result) < 2
    /\ result' =
          Append(result,
                 generate_terrain_element(
                    terrain_mode, probe.b, probe.b,
                    IF result = << >> THEN probe.a ELSE result[1].rng))
    /\ UNCHANGED << pure_vars, terrain_mode >>

\* get_hitbox_for_element for element a
call_get_hitbox_for_element ==
    /\ probe.kind = "hitbox"
    /\ result = << >>
    /\ result' = << get_hitbox_for_element(probe.a) >>
    /\ UNCHANGED << pure_vars, terrain_mode >>

\* main() (lines 608-611) with RENDER_DISTANCE set to a: the constant is
\* read nowhere before update_chunks, which setup calls on the empty store;
\* the result is whether an error was reported, the window update_chunks
\* computed and the chunks it created
call_main_configured ==
    /\ probe.kind = "config"
    /\ result = << >>
    /\ result' =
          << [error |-> FALSE,
              needed |-> chunks_needed_at(center_chunk(camera), probe.a),
              created |-> chunks_to_create(
                             << >>,
                             chunks_needed_at(center_chunk(camera), probe.a))] >>
    /\ UNCHANGED << pure_vars, terrain_mode >>

NextPure ==
    \/ call_screen_to_chunk
    \/ call_round_trip
    \/ call_get_chunk_seed
    \/ toggle_mode
    \/ start_game
    \/ call_quantum_band
    \/ call_create_chunk
    \/ call_generate_terrain_element
    \/ call_get_hitbox_for_element
    \/ call_main_configured

SpecPure == InitPure /\ [][NextPure]_vars

\* -------------------------------------------------------------------------
\* Properties
\* -------------------------------------------------------------------------

\* the square of chunk positions within RENDER_DISTANCE of chunk c
Window(c) ==
    { pos \in (c[1] - RENDER_DISTANCE .. c[1] + RENDER_DISTANCE)
                \X (c[2] - RENDER_DISTANCE .. c[2] + RENDER_DISTANCE) : TRUE }

\* the chunk the viewpoint of a camera position lies in
Viewpoint(cam) == center_chunk(cam)

\* C1: once update_chunks has returned, the store holds (2r+1)^2 chunks, all
\* of them within r = RENDER_DISTANCE of the viewpoint chunk on both axes.
C1_WindowInvariant ==
    pc = "running" =>
        /\ Cardinality(DOMAIN chunks)
              = (2 * RENDER_DISTANCE + 1) * (2 * RENDER_DISTANCE + 1)
        /\ \A pos \in DOMAIN chunks :
              /\ Abs(pos[1] - Viewpoint(camera)[1]) <= RENDER_DISTANCE
              /\ Abs(pos[2] - Viewpoint(camera)[2]) <= RENDER_DISTANCE

\* update_chunks has run on a store that held the window of another chunk
C1_Witness ==
    /\ pc = "running"
    /\ frames > 0
    /\ Viewpoint(viewpoint_before) # Viewpoint(camera)
    /\ DOMAIN chunks = Window(Viewpoint(camera))

\* the viewpoint chunk moves by one chunk, along one axis or both
OneChunkMove(c, d) ==
    /\ c # d
    /\ Abs(c[1] - d[1]) <= 1
    /\ Abs(c[2] - d[2]) <= 1

\* C2: when the viewpoint moves by one chunk, the chunks removed are those of
\* the old window outside the new one, the chunks created (each adds
\* CHUNK_SIZE^2 ground sprites to the scene) are those of the new window
\* outside the old one, and a chunk in both windows keeps its value.
C2_OneChunkMove ==
    [][ (camera' # camera
           /\ OneChunkMove(Viewpoint(camera), Viewpoint(camera')))
        => /\ DOMAIN chunks \ DOMAIN chunks'
                = Window(Viewpoint(camera)) \ Window(Viewpoint(camera'))
           /\ DOMAIN chunks' \ DOMAIN chunks
                = Window(Viewpoint(camera')) \ Window(Viewpoint(camera))
           /\ BagCardinality(scene'.Ground)
                = BagCardinality(scene.Ground)
                    + CHUNK_SIZE * CHUNK_SIZE
                        * Cardinality(Window(Viewpoint(camera'))
                                        \ Window(Viewpoint(camera)))
           /\ \A pos \in DOMAIN chunks \cap DOMAIN chunks' :
                 chunks'[pos] = chunks[pos] ]_vars

\* the last on_update moved the viewpoint by one chunk and the two windows
\* share chunks
C2_Witness ==
    /\ pc = "running"
    /\ frames > 0
    /\ camera # viewpoint_before
    /\ OneChunkMove(Viewpoint(viewpoint_before), Viewpoint(camera))
    /\ Window(Viewpoint(viewpoint_before)) \cap DOMAIN chunks # {}
    /\ Window(Viewpoint(viewpoint_before)) \ DOMAIN chunks # {}

\* the sprites the resident chunks hold for one layer
Resident(layer) ==
    SetToBag(UNION { { chunks[pos][layer][i] :
                         i \in 1 .. Len(chunks[pos][layer]) } :
                     pos \in DOMAIN chunks })

\* C3: the sprites and hitboxes in the scene are those of resident chunks,
\* and no tile has two ground sprites.
C3_SceneHoldsResidentOnly ==
    pc = "running" =>
        /\ scene.Ground \sqsubseteq Resident("ground")
        /\ scene.Objects \sqsubseteq Resident("objects")
        /\ scene.Walls \sqsubseteq Resident("walls")

\* C4 as stated: whatever moves and mode toggles lie between them, a chunk
\* that is created again has the placements of every earlier creation of it.
C4_RecreatedAlike ==
    \A pos \in DOMAIN chunks : \A mode \in MODES :
        << pos, mode >> \in DOMAIN history
            => chunks[pos] = history[<< pos, mode >>].first

\* C4: a chunk that is created again in the generation mode of an earlier
\* creation has the placements (textures, tiles, hitboxes) of that creation.
C4_RecreatedAlikeInSameMode ==
    \A pos \in DOMAIN chunks :
        chunks[pos] = history[<< pos, made[pos] >>].first

\* a resident chunk with a feature that was created twice in its mode
C4_Witness ==
    \E pos \in DOMAIN chunks :
        /\ history[<< pos, made[pos] >>].times = 2
        /\ chunks[pos].walls # << >>

\* C5: update_chunks called again with the camera where it is creates
\* nothing, removes nothing and leaves the store and the scene as they are.
C5_ReconcileIdempotent ==
    pc = "running" =>
        \A mode \in MODES :
            \A again \in { update_chunks(camera, scene, chunks, mode, textures) } :
                /\ again.created = << >>
                /\ again.chunks = chunks
                /\ again.scene = scene

\* R restarted a game that had moved: setup called update_chunks on a
\* store that already held the window, and nothing was created
C5_Witness ==
    /\ pc = "running"
    /\ frames > 0
    /\ ~game_over
    /\ scene = NEW_SCENE
    /\ DOMAIN chunks = Window(Viewpoint(camera))

\* the kind a draw of the random generator selects, and whether a second
\* draw is consumed: rows are [below, second draw below, kind]
RANDOM_TABLE ==
    << [noise |-> 350, second |-> 300, kind |-> "tree_blocks_fall"],
       [noise |-> 350, second |-> 500, kind |-> "tree_oak_fall"],
       [noise |-> 350, second |-> 700, kind |-> "tree_default_fall"],
       [noise |-> 350, second |-> 850, kind |-> "tree_fat_fall"],
       [noise |-> 350, second |-> 1000, kind |-> "tree_thin_fall"],
       [noise |-> 400, second |-> 700, kind |-> "stone_tall"],
       [noise |-> 400, second |-> 1000, kind |-> "stone_large"],
       [noise |-> 430, second |-> 600, kind |-> "log"],
       [noise |-> 430, second |-> 1000, kind |-> "log_large"],
       [noise |-> 480, second |-> 1000, kind |-> "bush_small"],
       [noise |-> 1000, second |-> 1000, kind |-> "None"] >>

\* the first row of the table that two draws fall under
RandomRow(noise, second) ==
    RANDOM_TABLE[CHOOSE i \in 1 .. Len(RANDOM_TABLE) :
                    /\ noise < RANDOM_TABLE[i].noise
                    /\ second < RANDOM_TABLE[i].second
                    /\ \A j \in 1 .. i - 1 :
                          ~(noise < RANDOM_TABLE[j].noise
                              /\ second < RANDOM_TABLE[j].second)]

\* the kinds of n tiles in random mode, from the stream state rng
RECURSIVE RandomKinds(_, _)
RandomKinds(rng, n) ==
    IF n = 0 THEN << >>
    ELSE CHOOSE kinds \in
           { << RandomRow(rng_value(rng), rng_value(rng_next(rng))).kind >>
               \o RandomKinds(rest, n - 1) :
             rest \in { IF rng_value(rng) < 430
                        THEN rng_next(rng_next(rng)) ELSE rng_next(rng) } }
           : TRUE

\* the kinds the tiles of chunk pos are to have in a mode, in loop order
ExpectedKinds(mode, pos) ==
    IF mode = "quantum"
    THEN [i \in 1 .. CHUNK_SIZE * CHUNK_SIZE |->
             quantum_terrain(pos[1] * CHUNK_SIZE + ((i - 1) \div CHUNK_SIZE),
                             pos[2] * CHUNK_SIZE + ((i - 1) % CHUNK_SIZE))]
    ELSE RandomKinds(Random(get_chunk_seed(pos[1], pos[2])),
                     CHUNK_SIZE * CHUNK_SIZE)

\* the kinds the tiles of a chunk have, in loop order
KindsOf(chunk_sprites, pos) ==
    [i \in 1 .. CHUNK_SIZE * CHUNK_SIZE |->
        LET tile == << pos[1] * CHUNK_SIZE + ((i - 1) \div CHUNK_SIZE),
                       pos[2] * CHUNK_SIZE + ((i - 1) % CHUNK_SIZE) >>
            on_tile == { s \in { chunk_sprites.objects[k] :
                                   k \in 1 .. Len(chunk_sprites.objects) }
                               \cup { chunk_sprites.walls[k] :
                                        k \in 1 .. Len(chunk_sprites.walls) } :
                           s.iso = tile }
        IN  IF on_tile = {} THEN "None"
            ELSE (CHOOSE s \in on_tile : TRUE).texture]

\* C6: a step that toggles the mode changes no chunk and no sprite; a
\* resident chunk keeps its placements while it stays resident; a chunk
\* created in a step has the kinds of the mode in force at that step.
C6_ToggleLeavesResident ==
    [][ /\ terrain_mode' # terrain_mode
            => (chunks' = chunks /\ scene' = scene)
        /\ \A pos \in DOMAIN chunks \cap DOMAIN chunks' :
              chunks'[pos] = chunks[pos]
        /\ \A pos \in DOMAIN chunks' \ DOMAIN chunks :
              /\ terrain_mode' = terrain_mode
              /\ KindsOf(chunks'[pos], pos) = ExpectedKinds(terrain_mode', pos)
      ]_vars

\* chunks of both modes are resident: the mode was toggled, chunks created
\* before the toggle stayed and chunks were created after it
C6_Witness ==
    /\ terrain_mode = "random"
    /\ \E p \in DOMAIN chunks, q \in DOMAIN chunks :
          /\ made[p] = "quantum"
          /\ made[q] = "random"
          /\ KindsOf(chunks[q], q) # ExpectedKinds("quantum", q)

\* C7: screen_to_chunk buckets a pixel position by floor: cx is the floor of
\* sx over the chunk width, cy the floor of sy over the chunk height, so
\* sx = -1 lies in chunk column -1.
C7_BucketsByFloor ==
    (probe.kind = "pixel" /\ result # << >>)
        => result[1] = << probe.a \div ((TILE_WIDTH * CHUNK_SIZE) \div 2),
                          probe.b \div ((TILE_HEIGHT * CHUNK_SIZE) \div 2) >>

\* C8: the centre tile of chunk (cx, cy), projected to the screen and
\* bucketed by screen_to_chunk, gives (cx, cy) again.
C8_ProjectionAgrees ==
    (probe.kind = "centre" /\ result # << >>)
        => result[1] = << probe.a, probe.b >>

\* the band a combined value (in 1/20000) lies in: rows are
\* [from, below, kind]; the last band is split by (x + y) % 3
BAND_TABLE ==
    << [from |-> 0, below |-> 13000, kind |-> "None"],
       [from |-> 13000, below |-> 13600, kind |-> "tree_thin_fall"],
       [from |-> 13600, below |-> 14000, kind |-> "tree_default_fall"],
       [from |-> 14000, below |-> 14400, kind |-> "tree_oak_fall"],
       [from |-> 14400, below |-> 15000, kind |-> "stone_large"],
       [from |-> 15000, below |-> 15400, kind |-> "log"],
       [from |-> 15400, below |-> 2 * SCALE + 1, kind |-> "last"] >>

\* C9: the kind of a tile is that of the band its combined value lies in,
\* every band closed below and open above: a value of exactly 0.65 is a
\* thin tree, and the last band gives a tall stone where (x + y) % 3 = 0 and
\* a small bush elsewhere.
C9_BandTable ==
    (probe.kind = "band" /\ result # << >>)
        => \A i \in 1 .. Len(BAND_TABLE) :
              (BAND_TABLE[i].from <= probe.a /\ probe.a < BAND_TABLE[i].below)
                 => result[1] =
                      IF BAND_TABLE[i].kind # "last" THEN BAND_TABLE[i].kind
                      ELSE IF probe.b % 3 = 0 THEN "stone_tall"
                      ELSE "bush_small"

\* a combined value of exactly 0.65 was classified
C9_Witness ==
    /\ probe.kind = "band"
    /\ probe.a = 13000
    /\ result = << "tree_thin_fall" >>

\* C10: get_chunk_seed gives one chunk the same seed at every call, a seed
\* between 0 and 2^31 - 2, whatever the chunk store holds, whatever the
\* generation mode and whatever was called before.
C10_SeedIsPure ==
    probe.kind = "seed"
        => \A i \in 1 .. Len(result) :
              /\ result[i] \in 0 .. SEED_MODULUS - 1
              /\ result[i] = result[1]

\* the seed of a chunk at negative x was asked for twice, the second time
\* after the mode was toggled and the chunk store filled
C10_Witness ==
    /\ probe.kind = "seed"
    /\ probe.a < 0
    /\ probe.b > 0
    /\ Len(result) = 2
    /\ terrain_mode = "random"
    /\ chunks # << >>

\* the feature kinds by family
TREE_KINDS ==
    {"tree_blocks_fall", "tree_oak_fall", "tree_default_fall",
     "tree_fat_fall", "tree_thin_fall"}

STONE_KINDS == {"stone_tall", "stone_large"}

LOG_KINDS == {"log", "log_large"}

\* the elements of a sequence
Range(list) == { list[i] : i \in 1 .. Len(list) }

\* C11: has_collision is true of every tree, stone and log kind and false of
\* the bush and of none; in a resident chunk a feature is in the walls list,
\* with a four-point hitbox, exactly when its kind is one of those, it is in
\* the objects list without a hitbox otherwise, and no tile is in both lists.
C11_CollisionClasses ==
    /\ \A kind \in TREE_KINDS \cup STONE_KINDS \cup LOG_KINDS :
          has_collision(kind)
    /\ ~has_collision("bush_small")
    /\ ~has_collision("None")
    /\ \A pos \in DOMAIN chunks :
          /\ \A s \in Range(chunks[pos].walls) :
                /\ s.texture \in TREE_KINDS \cup STONE_KINDS \cup LOG_KINDS
                /\ Len(s.hit_box) = 4
          /\ \A s \in Range(chunks[pos].objects) :
                /\ s.texture \notin TREE_KINDS \cup STONE_KINDS \cup LOG_KINDS
                /\ s.hit_box = << >>
          /\ \A s \in Range(chunks[pos].walls) :
                \A t \in Range(chunks[pos].objects) : s.iso # t.iso

\* resident chunks hold a tree, a log and a bush
C11_Witness ==
    /\ \E pos \in DOMAIN chunks : \E s \in Range(chunks[pos].walls) :
          s.texture \in TREE_KINDS
    /\ \E pos \in DOMAIN chunks : \E s \in Range(chunks[pos].walls) :
          s.texture \in LOG_KINDS
    /\ \E pos \in DOMAIN chunks : \E s \in Range(chunks[pos].objects) :
          s.texture = "bush_small"

\* the tiles chunk pos owns
TilesOf(pos) ==
    (pos[1] * CHUNK_SIZE .. pos[1] * CHUNK_SIZE + CHUNK_SIZE - 1)
      \X (pos[2] * CHUNK_SIZE .. pos[2] * CHUNK_SIZE + CHUNK_SIZE - 1)

\* how many placements of a list stand on a tile
FeaturesOn(list, tile) == Cardinality({ i \in 1 .. Len(list) : list[i].iso = tile })

\* how many ground placements lie at the projected position of a tile
GroundOn(list, tile) ==
    Cardinality({ i \in 1 .. Len(list) :
                    << list[i].center_x, list[i].center_y >>
                       = << (tile[1] - tile[2]) * (TILE_WIDTH \div 2),
                            (tile[1] + tile[2]) * (TILE_HEIGHT \div 2) >> })

\* the tile with index i (from 1) in the x-outer, y-inner order
TileAt(pos, i) ==
    << pos[1] * CHUNK_SIZE + ((i - 1) \div CHUNK_SIZE),
       pos[2] * CHUNK_SIZE + ((i - 1) % CHUNK_SIZE) >>

\* C12: a created chunk has one ground placement on each of its CHUNK_SIZE^2
\* tiles and no other, at most one feature on each tile and none elsewhere,
\* and a feature of the generated kind on every tile whose generated kind is
\* not none.
C12_TilesCovered ==
    (probe.kind = "create" /\ result # << >>)
        => LET pos == << probe.a, probe.b >>
               features == result[1].objects \o result[1].walls
           IN  /\ Len(result[1].ground) = CHUNK_SIZE * CHUNK_SIZE
               /\ \A tile \in TilesOf(pos) :
                     /\ GroundOn(result[1].ground, tile) = 1
                     /\ FeaturesOn(features, tile) <= 1
               /\ \A i \in 1 .. Len(features) : features[i].iso \in TilesOf(pos)
               /\ \A i \in 1 .. CHUNK_SIZE * CHUNK_SIZE :
                     ExpectedKinds(terrain_mode, pos)[i] # "None"
                        => \E k \in 1 .. Len(features) :
                              /\ features[k].iso = TileAt(pos, i)
                              /\ features[k].texture
                                    = ExpectedKinds(terrain_mode, pos)[i]

\* C13: whatever set of textures loaded, the features of a created chunk
\* (tile, kind, walls or objects, hitbox) are those it has when every
\* texture loaded: a kind whose texture is missing is still placed.
C13_TexturesDoNotMatter ==
    (probe.kind = "create" /\ result # << >>)
        => \A complete \in { create_chunk(terrain_mode, ALL_TEXTURES,
                                          probe.a, probe.b) } :
              /\ Len(result[1].walls) = Len(complete.walls)
              /\ Len(result[1].objects) = Len(complete.objects)
              /\ \A i \in 1 .. Len(complete.walls) :
                    /\ result[1].walls[i].iso = complete.walls[i].iso
                    /\ result[1].walls[i].hit_box = complete.walls[i].hit_box
              /\ \A i \in 1 .. Len(complete.objects) :
                    result[1].objects[i].iso = complete.objects[i].iso

\* the state of the stream before the call numbered i
StreamBefore(i) == IF i = 1 THEN probe.a ELSE result[i - 1].rng

\* C14: in random mode the kind of a tile is the row of the table that the
\* next two values of the stream fall under; a tree, a stone or a log leaves
\* the stream two draws on, a bush or none one draw on.  A chunk created in
\* random mode has, tile by tile in the x-outer, y-inner order, the kinds
\* the table gives for the stream seeded with the seed of the chunk.
C14_RandomDraws ==
    /\ (probe.kind = "generate" /\ terrain_mode = "random")
          => \A i \in 1 .. Len(result) :
                /\ result[i].element
                      = RandomRow(rng_value(StreamBefore(i)),
                                  rng_value(rng_next(StreamBefore(i)))).kind
                /\ result[i].rng
                      = IF result[i].element
                             \in TREE_KINDS \cup STONE_KINDS \cup LOG_KINDS
                        THEN rng_next(rng_next(StreamBefore(i)))
                        ELSE rng_next(StreamBefore(i))
    /\ (probe.kind = "create" /\ terrain_mode = "random"
           /\ textures = ALL_TEXTURES /\ result # << >>)
          => KindsOf(result[1], << probe.a, probe.b >>)
                = RandomKinds(Random(get_chunk_seed(probe.a, probe.b)),
                              CHUNK_SIZE * CHUNK_SIZE)

\* two tiles were generated in random mode, the first a log (two draws),
\* the second none (one draw)
C14_Witness ==
    /\ probe.kind = "generate"
    /\ terrain_mode = "random"
    /\ Len(result) = 2
    /\ result[1].element \in LOG_KINDS
    /\ result[2].element = "None"

\* C15: in quantum mode the kind of a tile is that of quantum_terrain for
\* the tile, whatever the state of the stream and whatever was generated
\* before, and the stream is left as it was.
C15_QuantumIgnoresStream ==
    (probe.kind = "generate" /\ terrain_mode = "quantum")
        => \A i \in 1 .. Len(result) :
              /\ result[i].element = quantum_terrain(probe.b, probe.b)
              /\ result[i].rng = probe.a

\* a tile with a feature was generated twice in quantum mode
C15_Witness ==
    /\ probe.kind = "generate"
    /\ terrain_mode = "quantum"
    /\ Len(result) = 2
    /\ result[2].element = "stone_large"

\* the templates: half width in 1/100 of hitbox_width, extent below and
\* above in 1/10 of hitbox_height
HITBOX_TABLE ==
    << [kinds |-> TREE_KINDS \cup {"tree_tall_fall"},
        half |-> 45, below |-> 30, above |-> 8],
       [kinds |-> {"stone_large"}, half |-> 80, below |-> 12, above |-> 6],
       [kinds |-> LOG_KINDS, half |-> 90, below |-> 10, above |-> 5],
       [kinds |-> {"stone_tall"}, half |-> 60, below |-> 8, above |-> 4] >>

Sign(v) == IF v > 0 THEN 1 ELSE IF v < 0 THEN -1 ELSE 0

\* the turn at q on the way from p to r, for edges along the axes: 1 is a
\* left turn
Turn(p, q, r) ==
    Sign(q[1] - p[1]) * Sign(r[2] - q[2])
      - Sign(q[2] - p[2]) * Sign(r[1] - q[1])

\* C16: the hitbox of a collidable kind has four points, its edges run
\* along the axes and turn left at every corner (a rectangle of positive
\* area, wound one way), and it spans the template of its family:
\* [-half, half] of hitbox_width by [-below, above] of hitbox_height.
C16_HitboxRectangles ==
    (probe.kind = "hitbox" /\ result # << >> /\ has_collision(probe.a))
        => LET box == result[1]
               next(i) == (i % 4) + 1
           IN  /\ Len(box) = 4
               /\ \A i \in 1 .. 4 :
                     /\ (box[i][1] = box[next(i)][1])
                           # (box[i][2] = box[next(i)][2])
                     /\ Turn(box[i], box[next(i)], box[next(next(i))]) = 1
               /\ \E row \in Range(HITBOX_TABLE) :
                     /\ probe.a \in row.kinds
                     /\ { box[i][1] : i \in 1 .. 4 }
                           = { -((TILE_WIDTH * 300 * row.half) \div 100),
                               (TILE_WIDTH * 300 * row.half) \div 100 }
                     /\ { box[i][2] : i \in 1 .. 4 }
                           = { -((TILE_HEIGHT * 300 * row.below) \div 10),
                               (TILE_HEIGHT * 300 * row.above) \div 10 }

\* the hitbox of a tall stone, the last family before the fallback
C16_Witness ==
    /\ probe.kind = "hitbox"
    /\ probe.a = "stone_tall"
    /\ result # << >>
    /\ Len(result[1]) = 4

\* C17: the steps that are neither the start of the game nor a frame that
\* moves the camera (a key press, the mode toggle and the restart among
\* them, a key release, a frame that ends the game, a frame of a game that
\* is over, the draw pass) leave the chunk store as it is, and no step
\* changes the placements of a chunk that stays in the store.
C17_StoreChangedByReconcileOnly ==
    [][ /\ (pc' = pc /\ camera' = camera) => chunks' = chunks
        /\ \A pos \in DOMAIN chunks \cap DOMAIN chunks' :
              /\ chunks'[pos].ground = chunks[pos].ground
              /\ chunks'[pos].objects = chunks[pos].objects
              /\ chunks'[pos].walls = chunks[pos].walls
      ]_vars

\* the mode was toggled after a move and the store still holds the chunks
\* made before the toggle
C17_Witness ==
    /\ pc = "running"
    /\ frames > 0
    /\ terrain_mode = "random"
    /\ chunks # << >>
    /\ \A pos \in DOMAIN chunks : made[pos] = "quantum"

\* C18: whenever on_draw can run the store holds the window around the
\* chunk of the camera position, and a step that moves the camera ends with
\* the store holding the window around the new position; the frame that
\* ends the game leaves the camera where it is.
C18_ReconciledBeforeDraw ==
    /\ [](ENABLED on_draw => DOMAIN chunks = Window(Viewpoint(camera)))
    /\ [][ /\ camera' # camera
              => DOMAIN chunks' = Window(Viewpoint(camera'))
           /\ (~game_over /\ game_over') => camera' = camera
         ]_vars

\* on_draw can run after the camera has moved and a collision has ended
\* the game
C18_Witness ==
    /\ ENABLED on_draw
    /\ game_over
    /\ frames > 0
    /\ camera # CAMERA_START

\* C19: started with a negative render distance, the program reports an
\* error and update_chunks does not run with an empty window.
C19_FailsFast ==
    (probe.kind = "config" /\ probe.a < 0 /\ result # << >>)
        => /\ result[1].error
           /\ result[1].needed # {}

\* C20: every placement of every chunk in the store is in the layer of the
\* current scene it was created for, also after a restart.
C20_ResidentBackedByScene ==
    pc = "running" =>
        \A pos \in DOMAIN chunks :
            /\ \A s \in Range(chunks[pos].ground) : BagIn(s, scene.Ground)
            /\ \A s \in Range(chunks[pos].objects) : BagIn(s, scene.Objects)
            /\ \A s \in Range(chunks[pos].walls) : BagIn(s, scene.Walls)

(***************************************************************************)
(* C21: game over freezes the core.  While game_over is set, a step of     *)
(* on_update leaves the camera position, the chunk store, the scene and    *)
(* distance_traveled unchanged, and a key press other than R leaves the    *)
(* generation mode and the turn direction unchanged; game_over becomes     *)
(* false again only by the key press R, which runs setup: the scene and    *)
(* the store are those update_chunks makes from a new scene, and           *)
(* distance_traveled is 0.  (A key release is not a key press: it still    *)
(* resets the turn direction while the game is over.)                      *)
(***************************************************************************)
on_update ==
    \/ on_update_over
    \/ on_update_blocked
    \/ \E move_x \in MOVES, move_y \in MOVES : on_update_moved(move_x, move_y)

C21_GameOverFreezes ==
    [][ /\ (game_over /\ on_update) =>
              /\ UNCHANGED << camera, chunks, scene, distance_traveled >>
              /\ game_over'
        /\ (game_over /\ \E key \in KEYS \ {"R"} : on_key_press(key)) =>
              /\ UNCHANGED << terrain_mode, turn_direction >>
              /\ game_over'
        /\ (game_over /\ ~game_over') =>
              /\ on_key_press("R")
              /\ distance_traveled' = 0
              /\ \E after \in { update_chunks(camera, NEW_SCENE, chunks,
                                               terrain_mode, textures) } :
                    scene' = after.scene /\ chunks' = after.chunks
        /\ (game_over /\ game_over') =>
              UNCHANGED << camera, chunks, scene, distance_traveled,
                           terrain_mode >> ]_vars

\* a finished game was restarted with R: the camera had moved, the game was
\* over, and the distance is 0 again in a running game
C21_Witness ==
    /\ pc = "running"
    /\ ~game_over
    /\ frames > 0
    /\ distance_traveled = 0

====
